---- MODULE Spec2Model ----
(***************************************************************************)
(* Model of biai_script.py: the resize pass over the dataset directories,  *)
(* the Dataset class (class-colour mask decoding, transform order) and the *)
(* Dataloder class (index array, batching, epoch shuffling).               *)
(*                                                                         *)
(* Python positions are 0-based; TLA+ sequences are 1-based, so Python     *)
(* position i of a list is element i + 1 of the sequence modelling it.     *)
(***************************************************************************)
EXTENDS Integers, Sequences, FiniteSets, TLC

(* ------------------------------ bounds --------------------------------- *)

\* Largest number of files listed in the images directory.
MaxN == 3
\* Largest batch_size given to Dataloder.
MaxBatch == 2
\* Number of pixels of a mask raster.
NumPixels == 2
\* Longest class list given to Dataset in the decoding specification.
MaxClasses == 2

(* ------------------------- program constants --------------------------- *)

width == 800
height == 600

\* Python's None (the value dict.get returns for a missing key).
None == <<>>

\* Dataset.CLASSES: the palette, class name -> 3-channel colour.
CLASSES ==
    [c \in {"nonmaskingbackground", "maskingbackground", "animal",
            "nonmaskingforegroundattention", "unlabelled"} |->
        CASE c = "nonmaskingbackground" -> <<0, 0, 255>>
          [] c = "maskingbackground" -> <<0, 255, 0>>
          [] c = "animal" -> <<255, 0, 0>>
          [] c = "nonmaskingforegroundattention" -> <<255, 255, 255>>
          [] c = "unlabelled" -> <<0, 0, 0>>]

\* dict.get(key) with no default: the stored value, or None for a missing key.
CLASSES_get(key) == IF key \in DOMAIN CLASSES THEN CLASSES[key] ELSE None

\* directories.values(), in insertion order: the two Train directories, three times.
directories == <<"Images/Train", "Masks/Train", "Images/Train", "Masks/Train",
                 "Images/Train", "Masks/Train">>

VARIABLES
    dataset,    \* the Dataset object: ids, images_fps, masks_fps, class_colors, augmentation, preprocessing
    loader,     \* the Dataloder object: batch_size, shuffle, indexes
    classes,    \* the class list the Dataset was constructed with (constructor argument)
    disk,       \* the mask rasters on disk, by file id
    call,       \* the last operation called and its argument
    ret,        \* what the last operation returned or raised
    log,        \* the reads and transforms the last operation performed, in order
    fs,         \* the files of the two Train directories: directory -> name -> image or NoFile
    walk,       \* position of the resize loop in directories (Len + 1 when finished)
    scanned,    \* whether os.walk has listed the current directory
    pending,    \* the listed files of the current directory not yet resized
    before      \* the directory contents as they were when each directory was first listed

dsVars == <<dataset, loader, classes, disk, call, ret, log>>
fsVars == <<fs, walk, scanned, pending, before>>
vars == <<dataset, loader, classes, disk, call, ret, log, fs, walk, scanned, pending, before>>

(* ------------------------------ helpers -------------------------------- *)

\* range(a, b) as a sequence.
Range(a, b) == [k \in 1..(IF b > a THEN b - a ELSE 0) |-> a + k - 1]

\* The set of all sequences over S of length at most n.
SeqsUpTo(S, n) == UNION {[1..k -> S] : k \in 0..n}

\* Mutant of PyIndex: positions before the front are read as the first element.
PyIndexClamped(n, i) ==
    IF 0 <= i /\ i < n THEN i + 1
    ELSE IF i < 0 /\ n > 0 THEN (IF -n <= i THEN n + i + 1 ELSE 1)
    ELSE 0

\* Python list indexing seq[i]: the 1-based position read, 0 for an IndexError.
\* Positions 0..n-1 count from the front, -n..-1 from the back.
PyIndex(n, i) ==
    IF 0 <= i /\ i < n THEN i + 1
    ELSE IF -n <= i /\ i < 0 THEN n + i + 1
    ELSE 0

\* min of a non-empty set of integers.
Min(S) == CHOOSE x \in S : \A y \in S : x <= y

\* The concatenation of the first n sequences of a sequence of sequences.
RECURSIVE ConcatFirst(_, _)
ConcatFirst(ss, n) == IF n = 0 THEN <<>> ELSE ConcatFirst(ss, n - 1) \o ss[n]

(* ------------------------------ Dataset -------------------------------- *)

\* The channel values a mask pixel takes; a pixel is a triple of them, in the
\* channel order cv2.imread delivers.
ChannelVals == {0, 255}
Pixels == ChannelVals \X ChannelVals \X ChannelVals
Rasters == [1..NumPixels -> Pixels]

\* (mask == c) at one pixel: the elementwise comparison of the pixel's 3 channels
\* with colour c (broadcast); against None every element compares unequal.
PixelEq(pixel, c) == [ch \in 1..3 |-> IF c = None THEN FALSE ELSE pixel[ch] = c[ch]]

\* Mutant of AllAxis2: .any(axis=2), one equal channel is enough.
AnyAxis2(cmp) == \E ch \in DOMAIN cmp : cmp[ch]

\* .all(axis=2) at one pixel: every channel comparison is true.
AllAxis2(cmp) == \A ch \in DOMAIN cmp : cmp[ch]

\* (mask == c).all(axis=2): the boolean plane of colour c.
ClassPlane(mask, c) == [p \in DOMAIN mask |-> AllAxis2(PixelEq(mask[p], c))]

\* np.stack(masks, axis=-1).astype('float'): pixel -> one 0/1 value per plane.
StackPlanes(masks) ==
    [p \in 1..NumPixels |-> [k \in DOMAIN masks |-> IF masks[k][p] THEN 1 ELSE 0]]

\* Lines 105-106: one plane per class colour, stacked in the colours' order.
DecodeMask(mask, colors) ==
    StackPlanes([k \in DOMAIN colors |-> ClassPlane(mask, colors[k])])

\* Dataset.__init__: files is os.listdir(images_dir); aug and prep tell whether
\* an augmentation / preprocessing callable was supplied.
DatasetInit(files, cls, aug, prep) ==
    [ids |-> files,
     images_fps |-> [k \in DOMAIN files |-> [dir |-> "images_dir", id |-> files[k]]],
     masks_fps |-> [k \in DOMAIN files |-> [dir |-> "masks_dir", id |-> files[k]]],
     class_colors |-> [k \in DOMAIN cls |-> CLASSES_get(cls[k])],
     augmentation |-> aug,
     preprocessing |-> prep]

\* Lines 99-106 of Dataset.__getitem__ for the file at 1-based position j: read
\* the image and convert it, read the mask and decode it. st carries the image,
\* the mask and the log of what was done; np.stack of no planes raises ValueError.
LoadSample(ds, dk, j) ==
    LET f == ds.images_fps[j].id
        g == ds.masks_fps[j].id
        read == << [ev |-> "imread_image", file |-> f], [ev |-> "cvtColor", file |-> f],
                   [ev |-> "imread_mask", file |-> g] >>
    IN  IF Len(ds.class_colors) = 0
        THEN [kind |-> "ValueError", val |-> None, log |-> read]
        ELSE [kind |-> "sample",
              val |-> [image |-> [file |-> f, chain |-> <<"cvtColor">>],
                       mask |-> [planes |-> DecodeMask(dk[g], ds.class_colors), chain |-> <<>>]],
              log |-> Append(read, [ev |-> "decode", file |-> g])]

\* self.augmentation(image=image, mask=mask), if one was supplied.
Augment(ds, st) ==
    IF ds.augmentation
    THEN [kind |-> "sample",
          val |-> [image |-> [st.val.image EXCEPT !.chain = Append(@, "augmentation")],
                   mask |-> [st.val.mask EXCEPT !.chain = Append(@, "augmentation")]],
          log |-> Append(st.log, [ev |-> "augmentation", file |-> st.val.image.file])]
    ELSE st

\* self.preprocessing(image=image, mask=mask), if one was supplied.
Preprocess(ds, st) ==
    IF ds.preprocessing
    THEN [kind |-> "sample",
          val |-> [image |-> [st.val.image EXCEPT !.chain = Append(@, "preprocessing")],
                   mask |-> [st.val.mask EXCEPT !.chain = Append(@, "preprocessing")]],
          log |-> Append(st.log, [ev |-> "preprocessing", file |-> st.val.image.file])]
    ELSE st

\* Mutant of ApplyTransforms: preprocessing first, augmentation on its result.
ApplyTransformsSwapped(ds, st) == Augment(ds, Preprocess(ds, st))

\* Lines 108-116: augmentation first, preprocessing on its result.
ApplyTransforms(ds, st) == Preprocess(ds, Augment(ds, st))

\* Dataset.__getitem__(i): the sample, or the error raised, with the log.
DatasetGetItem(ds, dk, i) ==
    LET j == PyIndex(Len(ds.images_fps), i)
    IN  IF j = 0
        THEN [kind |-> "IndexError", val |-> None, log |-> <<>>]
        ELSE LET st == LoadSample(ds, dk, j)
             IN  IF st.kind = "sample" THEN ApplyTransforms(ds, st) ELSE st

\* Dataset.__len__
DatasetLen(ds) == Len(ds.ids)

(* ----------------------------- Dataloder ------------------------------- *)

\* np.arange(n)
arange(n) == [k \in 1..n |-> k - 1]

\* Mutant of permutation: draws with replacement, as np.random.choice(x, len(x)) does.
permutation_with_repeats(x) == [DOMAIN x -> {x[k] : k \in DOMAIN x}]

\* np.random.permutation(x): every permuted copy of x is a possible outcome.
permutation(x) == {[k \in DOMAIN x |-> x[p[k]]] : p \in Permutations(DOMAIN x)}

\* Mutant of on_epoch_end: shuffles whatever the shuffle flag says.
on_epoch_end_always(ld) == {[ld EXCEPT !.indexes = t] : t \in permutation(ld.indexes)}

\* Dataloder.on_epoch_end: the possible loader objects after the call.
on_epoch_end(ld) ==
    IF ld.shuffle
    THEN {[ld EXCEPT !.indexes = t] : t \in permutation(ld.indexes)}
    ELSE {ld}

\* Dataloder.__init__: the possible loader objects after construction.
DataloderInit(ds, bs, sh) ==
    on_epoch_end([batch_size |-> bs, shuffle |-> sh, indexes |-> arange(DatasetLen(ds))])

\* Dataloder.__getitem__(i): the stacked batch, or the error raised by the first
\* failing self.dataset[j], with the log of what was done up to there.
DataloderGetItem(ld, ds, dk, i) ==
    LET start == i * ld.batch_size
        stop == (i + 1) * ld.batch_size
        js == Range(start, stop)
        data == [k \in DOMAIN js |-> DatasetGetItem(ds, dk, js[k])]
        bad == {k \in DOMAIN js : data[k].kind # "sample"}
    IN  IF bad # {}
        THEN [kind |-> data[Min(bad)].kind, val |-> None,
              log |-> ConcatFirst([k \in DOMAIN js |-> data[k].log], Min(bad))]
        ELSE [kind |-> "batch",
              val |-> [images |-> [k \in DOMAIN js |-> data[k].val.image],
                       masks |-> [k \in DOMAIN js |-> data[k].val.mask]],
              log |-> ConcatFirst([k \in DOMAIN js |-> data[k].log], Len(js))]

\* Mutant of DataloderLen: counts the trailing partial batch.
DataloderLenCeil(ld) == (Len(ld.indexes) + ld.batch_size - 1) \div ld.batch_size

\* Dataloder.__len__
DataloderLen(ld) == Len(ld.indexes) \div ld.batch_size

(* --------------------------- resize pass ------------------------------- *)

\* The file names a Train directory may hold: stem and extension.
Stems == {"a", "b"}
Exts == {"png", "jpg"}
FileNames == [stem : Stems, ext : Exts]
TrainDirs == {directories[k] : k \in DOMAIN directories}

\* An absent file.
NoFile == [w |-> 0, h |-> 0, pix |-> <<>>]

\* The decoded image of a file before the pass: its size is the target size or
\* another one, its pixel content is its own (pix names it).
OtherSize == [w |-> 1024, h |-> 768]
SourceImages(f) ==
    {[w |-> width, h |-> height, pix |-> <<f.stem, f.ext>>],
     [w |-> OtherSize.w, h |-> OtherSize.h, pix |-> <<f.stem, f.ext>>]}

\* Mutant of cv2_resize: resamples even an image that has the target size.
cv2_resize_always(img) ==
    [w |-> width, h |-> height, pix |-> Append(img.pix, "resampled")]

\* cv2.resize(img, (width, height)): an image of the target size is returned with
\* its pixels as they are; any other is resampled to the target size.
cv2_resize(img) ==
    IF img.w = width /\ img.h = height
    THEN img
    ELSE [w |-> width, h |-> height, pix |-> Append(img.pix, "resampled")]

\* os.path.splitext(path)[0] + '.png'
write_path(f) == [stem |-> f.stem, ext |-> "png"]

\* Lines 32-37 for one listed file f of a directory with files dirfiles: read,
\* resize, remove the file, write the result under the .png name.
ResizeAndSave(dirfiles, f) ==
    LET img == dirfiles[f]
        resized == cv2_resize(img)
        removed == [dirfiles EXCEPT ![f] = NoFile]
    IN  [removed EXCEPT ![write_path(f)] = resized]

(* ------------------------------ actions -------------------------------- *)

\* The index arguments tried on Dataset.__getitem__ and Dataloder.__getitem__.
IndexArgs == (-(MaxN + 1))..(MaxN + 1)

NoResult == [kind |-> "None", val |-> None]

\* dataset[i]
DatasetGetItemCall(i) ==
    /\ call' = [op |-> "Dataset.__getitem__", arg |-> i]
    /\ LET r == DatasetGetItem(dataset, disk, i)
       IN  /\ ret' = [kind |-> r.kind, val |-> r.val]
           /\ log' = r.log
    /\ UNCHANGED <<dataset, loader, classes, disk, fsVars>>

\* len(dataset)
DatasetLenCall ==
    /\ call' = [op |-> "Dataset.__len__", arg |-> 0]
    /\ ret' = [kind |-> "int", val |-> DatasetLen(dataset)]
    /\ log' = <<>>
    /\ UNCHANGED <<dataset, loader, classes, disk, fsVars>>

\* dataloader[i]
DataloderGetItemCall(i) ==
    /\ call' = [op |-> "Dataloder.__getitem__", arg |-> i]
    /\ LET r == DataloderGetItem(loader, dataset, disk, i)
       IN  /\ ret' = [kind |-> r.kind, val |-> r.val]
           /\ log' = r.log
    /\ UNCHANGED <<dataset, loader, classes, disk, fsVars>>

\* len(dataloader)
DataloderLenCall ==
    /\ call' = [op |-> "Dataloder.__len__", arg |-> 0]
    /\ ret' = [kind |-> "int", val |-> DataloderLen(loader)]
    /\ log' = <<>>
    /\ UNCHANGED <<dataset, loader, classes, disk, fsVars>>

\* dataloader.on_epoch_end()
OnEpochEndCall ==
    /\ call' = [op |-> "Dataloder.on_epoch_end", arg |-> 0]
    /\ loader' \in on_epoch_end(loader)
    /\ ret' = NoResult
    /\ log' = <<>>
    /\ UNCHANGED <<dataset, classes, disk, fsVars>>

\* os.walk lists the files of the current directory (line 30).
ListDir ==
    /\ walk <= Len(directories)
    /\ ~scanned
    /\ scanned' = TRUE
    /\ pending' = {f \in FileNames : fs[directories[walk]][f] # NoFile}
    /\ UNCHANGED <<fs, walk, before, dsVars>>

\* One iteration of the loop over the listed files (lines 31-37).
ResizeFile(f) ==
    /\ walk <= Len(directories)
    /\ scanned
    /\ f \in pending
    /\ fs' = [fs EXCEPT ![directories[walk]] = ResizeAndSave(@, f)]
    /\ pending' = pending \ {f}
    /\ UNCHANGED <<walk, scanned, before, dsVars>>

\* The listed files are exhausted: the outer loop takes the next directory.
NextDir ==
    /\ walk <= Len(directories)
    /\ scanned
    /\ pending = {}
    /\ walk' = walk + 1
    /\ scanned' = FALSE
    /\ UNCHANGED <<fs, pending, before, dsVars>>

(* --------------------------- specifications ---------------------------- *)

\* The mask raster of file f when the disk content is not what is under study.
DefaultRaster(f) ==
    [p \in 1..NumPixels |->
        IF (f + p) % 2 = 0 THEN CLASSES["animal"] ELSE CLASSES["unlabelled"]]

\* The state after Dataset(...) and Dataloder(dataset, bs, sh) were constructed.
InitObjects(n, cls, aug, prep, rasters, bs, sh) ==
    /\ dataset = DatasetInit([k \in 1..n |-> k], cls, aug, prep)
    /\ classes = cls
    /\ disk = rasters
    /\ loader \in DataloderInit(dataset, bs, sh)
    /\ call = [op |-> "__init__", arg |-> 0]
    /\ ret = NoResult
    /\ log = <<>>

\* The resize loop has not started.
InitFiles(files) ==
    /\ fs = files
    /\ before = files
    /\ walk = 1
    /\ scanned = FALSE
    /\ pending = {}

\* No directory is looked at where the resize loop is not under study.
EmptyDirs == <<>>

\* The class lists the datasets of the loader specification are built with.
LoaderClassLists == {<<"animal">>, <<"animal", "unlabelled">>}

\* Dataset and Dataloder: any dataset size, batch size, shuffle flag and
\* transforms; then any sequence of calls.
Init ==
    /\ \E n \in 0..MaxN, cls \in LoaderClassLists, aug \in BOOLEAN, prep \in BOOLEAN,
          bs \in 1..MaxBatch, sh \in BOOLEAN :
            InitObjects(n, cls, aug, prep, [f \in 1..n |-> DefaultRaster(f)], bs, sh)
    /\ InitFiles(EmptyDirs)

Next ==
    \/ \E i \in IndexArgs : DatasetGetItemCall(i)
    \/ DatasetLenCall
    \/ \E i \in IndexArgs : DataloderGetItemCall(i)
    \/ DataloderLenCall
    \/ OnEpochEndCall

Spec == Init /\ [][Next]_vars

\* Mask decoding: a dataset of one file with any mask raster, built with any
\* class list over the palette names and one unknown name; then dataset[0].
ClassNames == DOMAIN CLASSES \cup {"foo"}

InitDecode ==
    /\ \E cls \in SeqsUpTo(ClassNames, MaxClasses), r \in Rasters :
            InitObjects(1, cls, FALSE, FALSE, <<r>>, 1, FALSE)
    /\ InitFiles(EmptyDirs)

NextDecode == \E i \in {0} : DatasetGetItemCall(i)

SpecDecode == InitDecode /\ [][NextDecode]_vars

\* The resize pass: any content of the two Train directories; then the loop.
DirContents == {d \in [FileNames -> UNION {SourceImages(f) \cup {NoFile} : f \in FileNames}] :
                    \A f \in FileNames : d[f] \in SourceImages(f) \cup {NoFile}}

InitResize ==
    /\ InitObjects(0, <<"animal">>, FALSE, FALSE, <<>>, 1, FALSE)
    /\ \E files \in [TrainDirs -> DirContents] : InitFiles(files)

NextResize ==
    \/ ListDir
    \/ \E f \in FileNames : ResizeFile(f)
    \/ NextDir

SpecResize == InitResize /\ [][NextResize]_vars

(* ------------------------------ claims --------------------------------- *)

N == DatasetLen(dataset)

\* One full pass of the driver, get_batch(0 .. length() - 1): what each batch holds.
FullPass ==
    [b \in 1..DataloderLen(loader) |-> DataloderGetItem(loader, dataset, disk, b - 1).val]

\* s holds each of 0..n-1 exactly once.
IsPermutation(s, n) ==
    /\ Len(s) = n
    /\ \A v \in 0..(n - 1) : Cardinality({k \in DOMAIN s : s[k] = v}) = 1

\* C1: get_batch(b), 0 <= b < length(), returns the samples Dataset.get(perm[k]) for
\* k = b*batch_size .. (b+1)*batch_size - 1, in that order, perm being the loader's
\* current index permutation.
C1_BatchFollowsPermutation ==
    (call.op = "Dataloder.__getitem__" /\ 0 <= call.arg /\ call.arg < DataloderLen(loader))
    => /\ ret.kind = "batch"
       /\ \A k \in 1..loader.batch_size :
            LET want == DatasetGetItem(dataset, disk,
                                       loader.indexes[call.arg * loader.batch_size + k])
            IN  /\ ret.val.images[k] = want.val.image
                /\ ret.val.masks[k] = want.val.mask

\* C2: with shuffle enabled and more than one sample, on_epoch_end() has an outcome
\* after which a full pass delivers, at some position, another sample than the
\* pass before it did.
C2_ShuffleChangesOrdering ==
    (loader.shuffle /\ N > 1) => ENABLED (OnEpochEndCall /\ FullPass' # FullPass)

\* The full pass that follows the index array: batch b holds the samples
\* Dataset.get(indexes[k]) for k = b*batch_size .. (b+1)*batch_size - 1.
PassOfIndexes ==
    [b \in 1..DataloderLen(loader) |->
        LET at(k) == DatasetGetItem(dataset, disk,
                                    loader.indexes[(b - 1) * loader.batch_size + k]).val
        IN  [images |-> [k \in 1..loader.batch_size |-> at(k).image],
             masks |-> [k \in 1..loader.batch_size |-> at(k).mask]]]

\* C3: with shuffle disabled the index permutation is the identity order after
\* construction and after every call, and on_epoch_end() changes nothing of the
\* loader, the dataset or the files; every full pass delivers the samples in
\* that identity order, so the pass after on_epoch_end() delivers what the pass
\* before it did.
C3_NoShuffleNoOp ==
    /\ [](~loader.shuffle => (loader.indexes = arange(N) /\ FullPass = PassOfIndexes))
    /\ [][(~loader.shuffle /\ call'.op = "Dataloder.on_epoch_end")
            => (loader' = loader /\ dataset' = dataset /\ disk' = disk)]_vars

C3_Witness ==
    /\ call.op = "Dataloder.on_epoch_end"
    /\ ~loader.shuffle
    /\ DataloderLen(loader) >= 2

\* C4: length() is floor(N / batch_size): length() full batches fit in the N
\* samples and one more does not, whatever was called before and whether or not
\* the loader shuffles.
C4_LengthIsFloor ==
    /\ loader.batch_size >= 1
    /\ DataloderLen(loader) * loader.batch_size <= N
    /\ N < (DataloderLen(loader) + 1) * loader.batch_size
    /\ call.op = "Dataloder.__len__" =>
            (ret.kind = "int" /\ ret.val * loader.batch_size <= N
                              /\ N < (ret.val + 1) * loader.batch_size)

C4_Witness ==
    /\ call.op = "Dataloder.__len__"
    /\ loader.shuffle
    /\ loader.indexes # arange(N)
    /\ N % loader.batch_size # 0
    /\ ret.val >= 1

\* C9: the index array is always a permutation of 0..N-1; it is the identity
\* order right after construction when shuffle is disabled; with shuffle enabled
\* on_epoch_end() installs a permutation that can differ from the one before;
\* get_batch and length never modify it.
C9_IndexesArePermutation ==
    /\ [](IsPermutation(loader.indexes, N))
    /\ []((call.op = "__init__" /\ ~loader.shuffle) => loader.indexes = arange(N))
    /\ []((loader.shuffle /\ N > 1)
            => ENABLED (OnEpochEndCall /\ loader'.indexes # loader.indexes))
    /\ [][call'.op \in {"Dataloder.__getitem__", "Dataloder.__len__",
                        "Dataset.__getitem__", "Dataset.__len__"}
            => loader'.indexes = loader.indexes]_vars

C9_Witness ==
    /\ call.op = "Dataloder.on_epoch_end"
    /\ loader.shuffle
    /\ loader.indexes # arange(N)
    /\ N = MaxN

(* Dataset claims *)

KnownClasses == \A k \in DOMAIN classes : classes[k] \in DOMAIN CLASSES

\* The positions of event ev in the log of the last call.
EventAt(ev) == {k \in DOMAIN log : log[k].ev = ev}

\* The place the claimed order gives each event of Dataset.get.
Rank(ev) ==
    CASE ev = "imread_image" -> 1
      [] ev = "cvtColor" -> 2
      [] ev = "imread_mask" -> 3
      [] ev = "decode" -> 4
      [] ev = "augmentation" -> 5
      [] ev = "preprocessing" -> 6

\* C5: a class list with a name outside the palette makes construction or the
\* first get fail with a lookup error; no decoded mask is returned.
C5_UnknownClassFails ==
    (~KnownClasses /\ call.op = "Dataset.__getitem__" /\ call.arg = 0)
    => ret.kind \in {"KeyError", "LookupError"}

\* C6 as stated: every i outside 0 <= i < Dataset.length(), negative i included,
\* makes Dataset.get(i) fail with an index error, and every b outside
\* 0 <= b < BatchLoader.length() makes get_batch(b) fail with an index error.
C6_OutOfRangeFails ==
    /\ (call.op = "Dataset.__getitem__" /\ ~(0 <= call.arg /\ call.arg < N))
        => ret.kind = "IndexError"
    /\ (call.op = "Dataloder.__getitem__"
            /\ ~(0 <= call.arg /\ call.arg < DataloderLen(loader)))
        => ret.kind = "IndexError"

\* C6 amended: Dataset.get(i) fails with an index error, returning no sample,
\* exactly when i is outside -length() <= i < length(); get_batch(b) fails with an
\* index error, returning no batch, exactly when b is outside
\* -length() <= b < length() (b == length() with a partial trailing batch
\* included). Negative positions inside the range count from the end.
C6_IndexErrorOutsideWrapRange ==
    /\ call.op = "Dataset.__getitem__" =>
        /\ ret.kind = "IndexError" <=> ~(-N <= call.arg /\ call.arg < N)
        /\ ret.kind = "IndexError" => (ret.val = None /\ log = <<>>)
        /\ (-N <= call.arg /\ call.arg < 0) =>
                (ret.kind = "sample" /\ ret.val.image.file = dataset.ids[N + call.arg + 1])
    /\ call.op = "Dataloder.__getitem__" =>
        /\ ret.kind = "IndexError" <=>
                ~(-DataloderLen(loader) <= call.arg /\ call.arg < DataloderLen(loader))
        /\ ret.kind = "IndexError" => ret.val = None

C6_Witness ==
    /\ call.op = "Dataloder.__getitem__"
    /\ call.arg = DataloderLen(loader)
    /\ N % loader.batch_size # 0
    /\ ret.kind = "IndexError"
    /\ log # <<>>

\* What C7 says of a decoded mask: one plane per listed class, in list order;
\* a pixel is 1 in plane k iff its 3 channel values are the palette colour of the
\* k-th listed class, else 0; plane 0 is plane 0 of decoding with the first class alone.
DecodedAsClaimed(planes, mask) ==
    \A p \in 1..NumPixels :
        /\ Len(planes[p]) = Len(classes)
        /\ \A k \in 1..Len(classes) :
                planes[p][k] = (IF mask[p] = CLASSES[classes[k]] THEN 1 ELSE 0)
        /\ (\A k \in 1..Len(classes) : mask[p] # CLASSES[classes[k]])
                => \A k \in 1..Len(classes) : planes[p][k] = 0
        /\ planes[p][1] = DecodeMask(mask, <<CLASSES_get(classes[1])>>)[p][1]

\* C7 as stated: for every mask raster and every class list of known names the
\* decoded mask is as claimed.
C7_DecodeEveryKnownList ==
    (KnownClasses /\ call.op = "Dataset.__getitem__" /\ call.arg = 0)
    => (ret.kind = "sample" /\ DecodedAsClaimed(ret.val.mask.planes, disk[1]))

\* C7 amended: for every mask raster and every non-empty class list of known
\* names the decoded mask is as claimed.
C7_DecodeNonEmptyKnownList ==
    (KnownClasses /\ Len(classes) >= 1 /\ call.op = "Dataset.__getitem__" /\ call.arg = 0)
    => (ret.kind = "sample" /\ DecodedAsClaimed(ret.val.mask.planes, disk[1]))

C7_Witness ==
    /\ classes = <<"animal", "unlabelled">>
    /\ call.op = "Dataset.__getitem__"
    /\ ret.kind = "sample"
    /\ disk[1][1] = <<0, 0, 255>>
    /\ ret.val.mask.planes[1] = <<0, 0>>
    /\ disk[1][2] = <<0, 0, 0>>
    /\ ret.val.mask.planes[2] = <<0, 1>>

\* C10: Dataset.get(i), 0 <= i < length(), loads image i, loads and decodes mask
\* i, applies the augmentation iff one was supplied, then the preprocessing iff
\* one was supplied, each at most once and in this order, on every call; the
\* call changes no Dataset field.
C10_GetOrderAndFrame ==
    /\ [](  (call.op = "Dataset.__getitem__" /\ 0 <= call.arg /\ call.arg < N)
            => /\ ret.kind = "sample"
               /\ \A k \in DOMAIN log : log[k].file = dataset.ids[call.arg + 1]
               /\ \A ev \in {"imread_image", "imread_mask", "decode"} :
                        Cardinality(EventAt(ev)) = 1
               /\ Cardinality(EventAt("augmentation")) = (IF dataset.augmentation THEN 1 ELSE 0)
               /\ Cardinality(EventAt("preprocessing")) = (IF dataset.preprocessing THEN 1 ELSE 0)
               /\ \A a, b \in DOMAIN log : a < b => Rank(log[a].ev) < Rank(log[b].ev)
               /\ ret.val.image.chain =
                        <<"cvtColor">>
                        \o (IF dataset.augmentation THEN <<"augmentation">> ELSE <<>>)
                        \o (IF dataset.preprocessing THEN <<"preprocessing">> ELSE <<>>)
               /\ ret.val.mask.chain = Tail(ret.val.image.chain))
    /\ [][call'.op = "Dataset.__getitem__" => dataset' = dataset]_vars

C10_Witness ==
    /\ call.op = "Dataset.__getitem__"
    /\ call.arg = 1
    /\ ret.kind = "sample"
    /\ dataset.augmentation
    /\ dataset.preprocessing
    /\ Len(log) = 6

(* Resize pass claims *)

\* The first place of directory d in directories.
FirstWalk(d) == Min({k \in DOMAIN directories : directories[k] = d})

\* The first walk over directory d is complete.
PassDone(d) == walk > FirstWalk(d)

TargetSize(img) == img # NoFile /\ img.w = width /\ img.h = height

\* No other file of directory d had the stem of f before the pass.
StemUnshared(d, f) ==
    \A g \in FileNames : (g # f /\ g.stem = f.stem) => before[d][g] = NoFile

\* C8 as stated: every file whose image is already 800x600 is left by the pass
\* under the same name and extension with the same pixel content.
C8_SameFileKept ==
    \A d \in TrainDirs, f \in FileNames :
        (TargetSize(before[d][f]) /\ PassDone(d)) => fs[d][f] = before[d][f]

\* C8 amended: every .png file whose image is already 800x600 and whose stem no
\* other file of its directory shares is left by the pass under the same name
\* with the same pixel content; an already 800x600 file of another extension
\* whose stem is unshared is replaced by <stem>.png with the same pixel content;
\* the walks after the first over a directory leave the directories exactly as
\* they are.
C8_PngOfTargetSizeKept ==
    /\ [](\A d \in TrainDirs, f \in FileNames :
            (TargetSize(before[d][f]) /\ StemUnshared(d, f) /\ PassDone(d))
            => /\ fs[d][write_path(f)] = before[d][f]
               /\ f.ext # "png" => fs[d][f] = NoFile
               /\ \A g \in FileNames : g.stem = f.stem /\ g # write_path(f)
                        => fs[d][g] = NoFile)
    /\ [][(walk <= Len(directories) /\ walk > FirstWalk(directories[walk]))
            => fs' = fs]_vars

C8_Witness ==
    /\ walk > Len(directories)
    /\ TargetSize(before["Images/Train"][[stem |-> "a", ext |-> "png"]])
    /\ before["Images/Train"][[stem |-> "a", ext |-> "jpg"]] = NoFile
    /\ before["Images/Train"][[stem |-> "b", ext |-> "jpg"]].w = OtherSize.w
    /\ TargetSize(before["Masks/Train"][[stem |-> "b", ext |-> "jpg"]])
    /\ before["Masks/Train"][[stem |-> "b", ext |-> "png"]] = NoFile
    /\ fs["Masks/Train"][[stem |-> "b", ext |-> "png"]] = before["Masks/Train"][[stem |-> "b", ext |-> "jpg"]]

====
